---- MODULE Spec2Model ----
(***************************************************************************)
(* Model of the exchange library (exchange/src): the client Registry, the  *)
(* transaction store of the Exchange and Exchange::handle.                 *)
(*                                                                         *)
(* Amount is rust_decimal::Decimal in the source; it is modelled as an     *)
(* exact integer number of smallest units, with +, - and < as the exact    *)
(* integer operations.                                                     *)
(***************************************************************************)
EXTENDS Integers, Sequences, FiniteSets, TLC

\* ---------------------------------------------------------------- bounds
MaxAmount == 1
MaxCalls  == 4
MaxRun    == 3

\* ClientID is u16 and TransactionID is u32; handle reads one client id and one
\* transaction id per call, so two of each give a call "this one" and "another one"
ClientIDs      == {1, 2}
TransactionIDs == {1, 2}
\* Decimal is signed and the parser accepts any sign, zero included
Amounts        == (-1)..MaxAmount

\* ------------------------------------------------------------ data model
\* TransactionType: Deposit(Amount) | Withdraw(Amount) | Dispute | Resolve | Chargeback
TransactionType ==
    [kind : {"Deposit", "Withdraw"}, amount : Amounts]
        \cup [kind : {"Dispute", "Resolve", "Chargeback"}]

Transaction_new(tx, client, ttype) == [tx |-> tx, client |-> client, ttype |-> ttype]

Transactions ==
    {Transaction_new(tx, client, ttype) :
        tx \in TransactionIDs, client \in ClientIDs, ttype \in TransactionType}

\* Transaction::amount -> Option<Amount>
amount(t) ==
    IF t.ttype.kind \in {"Deposit", "Withdraw"}
    THEN [some |-> TRUE, value |-> t.ttype.amount]
    ELSE [some |-> FALSE]

Client_new(id) ==
    [id |-> id, available |-> 0, held |-> 0, total |-> 0, locked |-> FALSE]

\* ExchangeError variants, and the Ok(()) of handle
Ok == [variant |-> "Ok"]
InvalidTransaction(t, msg) == [variant |-> "InvalidTransaction", transaction |-> t, msg |-> msg]
Locked(c) == [variant |-> "Locked", client |-> c]

MsgIdExists     == "The transaction ID already exists"
MsgIdNotExist   == "The given transaction ID DOES NOT exist"
MsgInsufficient == "Insufficient funds available for transaction. Available: {}, required: {}"
MsgNotDepositOrWithdrawal ==
    "Given transaction was not a deposit or withdrawal and thus has no amount"
MsgNoAmount     == "No amount associated with transaction"

\* ---------------------------------------------------------------- Registry
Registry_new == <<>>

\* bug variant: clients.insert(id, Client::new(id)) in place of entry().or_insert()
or_insert_Overwrite(clients, id) ==
    [c \in DOMAIN clients \cup {id} |-> IF c = id THEN Client_new(id) ELSE clients[c]]

\* self.clients.entry(*id).or_insert(Client::new(*id))
or_insert(clients, id) ==
    IF id \in DOMAIN clients THEN clients ELSE clients @@ (id :> Client_new(id))

\* bug variant: the Locked error carries a fresh record, not the client's
get_mut_FreshSnapshot(clients, id) ==
    LET after  == or_insert(clients, id)
        client == after[id]
    IN  IF client.locked
        THEN [clients |-> after, ok |-> FALSE, err |-> Locked(Client_new(id))]
        ELSE [clients |-> after, ok |-> TRUE, client |-> client]

\* bug variant: one locked client locks the whole registry
get_mut_AnyLocked(clients, id) ==
    LET after  == or_insert(clients, id)
        client == after[id]
    IN  IF \E c \in DOMAIN after : after[c].locked
        THEN [clients |-> after, ok |-> FALSE, err |-> Locked(client)]
        ELSE [clients |-> after, ok |-> TRUE, client |-> client]

\* bug variant: the locked test is missing
get_mut_NoLockCheck(clients, id) ==
    LET after == or_insert(clients, id)
    IN  [clients |-> after, ok |-> TRUE, client |-> after[id]]

\* Registry::get_mut: the registry after the lookup and Ok(client) / Err(Locked(client))
get_mut(clients, id) ==
    LET after  == or_insert(clients, id)
        client == after[id]
    IN  IF client.locked
        THEN [clients |-> after, ok |-> FALSE, err |-> Locked(client)]
        ELSE [clients |-> after, ok |-> TRUE, client |-> client]

\* ---------------------------------------------------------------- Exchange
Exchange_new == [registry |-> Registry_new, transactions |-> <<>>]

\* bug variant: only a repetition of the very same transaction is found taken
assert_id_available_ByTransaction(ex, transaction) ==
    IF \E id \in DOMAIN ex.transactions : ex.transactions[id] = transaction
    THEN [ok |-> FALSE, err |-> InvalidTransaction(transaction, <<MsgIdExists>>)]
    ELSE [ok |-> TRUE]

\* bug variant: the id is never found taken
assert_id_available_Always(ex, transaction) == [ok |-> TRUE]

\* Exchange::assert_id_available
assert_id_available(ex, transaction) ==
    IF transaction.tx \in DOMAIN ex.transactions
    THEN [ok |-> FALSE, err |-> InvalidTransaction(transaction, <<MsgIdExists>>)]
    ELSE [ok |-> TRUE]

\* bug variant: the lookup failure reuses the text of the duplicate-id error
get_tx_SameMessage(ex, transaction) ==
    IF transaction.tx \in DOMAIN ex.transactions
    THEN [ok |-> TRUE, prev_tx |-> ex.transactions[transaction.tx]]
    ELSE [ok |-> FALSE, err |-> InvalidTransaction(transaction, <<MsgIdExists>>)]

\* Exchange::get_tx
get_tx(ex, transaction) ==
    IF transaction.tx \in DOMAIN ex.transactions
    THEN [ok |-> TRUE, prev_tx |-> ex.transactions[transaction.tx]]
    ELSE [ok |-> FALSE, err |-> InvalidTransaction(transaction, <<MsgIdNotExist>>)]

\* self.transactions.insert(transaction.tx, transaction)
insert(transactions, transaction) ==
    [id \in DOMAIN transactions \cup {transaction.tx} |->
        IF id = transaction.tx THEN transaction ELSE transactions[id]]

\* bug variant: total is not credited
Deposit_apply_OnlyAvailable(client, amt) ==
    [client EXCEPT !.available = @ + amt]

\* client.total += amount; client.available += amount
Deposit_apply(client, amt) ==
    [client EXCEPT !.total = @ + amt, !.available = @ + amt]

\* bug variant: off by one, a withdrawal of exactly the available funds is refused
Withdraw_insufficient_Strict(client, amt) == client.available <= amt

\* bug variant: the funds test reads total instead of available
Withdraw_insufficient_ByTotal(client, amt) == client.total < amt

\* if client.available < amount { return Err(..) }
Withdraw_insufficient(client, amt) == client.available < amt

\* bug variant: a withdrawal is not taken off total
Withdraw_apply_KeepTotal(client, amt) ==
    [client EXCEPT !.available = @ - amt]

\* client.total -= amount; client.available -= amount
Withdraw_apply(client, amt) ==
    [client EXCEPT !.total = @ - amt, !.available = @ - amt]

\* bug variant: a dispute freezes the account
Dispute_apply_Freeze(client, amt) ==
    [client EXCEPT !.available = @ - amt, !.held = @ + amt, !.locked = TRUE]

\* client.available -= amount; client.held += amount
Dispute_apply(client, amt) ==
    [client EXCEPT !.available = @ - amt, !.held = @ + amt]

\* bug variant: held is not taken below zero
Resolve_apply_Saturating(client, amt) ==
    [client EXCEPT !.held = IF @ - amt < 0 THEN 0 ELSE @ - amt, !.available = @ + amt]

\* bug variant: held is released but available is not credited
Resolve_apply_NoCredit(client, amt) ==
    [client EXCEPT !.held = @ - amt]

\* client.held -= amount; client.available += amount
Resolve_apply(client, amt) ==
    [client EXCEPT !.held = @ - amt, !.available = @ + amt]

\* bug variant: total is not reduced
Chargeback_apply_KeepTotal(client, amt) ==
    [client EXCEPT !.held = @ - amt, !.locked = TRUE]

\* bug variant: the account is not frozen
Chargeback_apply_NoLock(client, amt) ==
    [client EXCEPT !.held = @ - amt, !.total = @ - amt]

\* client.held -= amount; client.total -= amount; client.locked = true
Chargeback_apply(client, amt) ==
    [client EXCEPT !.held = @ - amt, !.total = @ - amt, !.locked = TRUE]

Outcome(clients, transactions, result) ==
    [registry |-> clients, transactions |-> transactions, result |-> result]

\* handle, arm TransactionType::Deposit(amount)
Deposit(ex, transaction) ==
    LET amt == transaction.ttype.amount
        chk == assert_id_available(ex, transaction)
    IN  IF ~chk.ok THEN Outcome(ex.registry, ex.transactions, chk.err)
        ELSE
        LET txs == insert(ex.transactions, transaction)
            got == get_mut(ex.registry, transaction.client)
        IN  IF ~got.ok THEN Outcome(got.clients, txs, got.err)
            ELSE Outcome(
                [got.clients EXCEPT ![transaction.client] = Deposit_apply(@, amt)],
                txs, Ok)

\* handle, arm TransactionType::Withdraw(amount)
Withdraw(ex, transaction) ==
    LET amt == transaction.ttype.amount
        chk == assert_id_available(ex, transaction)
    IN  IF ~chk.ok THEN Outcome(ex.registry, ex.transactions, chk.err)
        ELSE
        LET txs == insert(ex.transactions, transaction)
            got == get_mut(ex.registry, transaction.client)
        IN  IF ~got.ok THEN Outcome(got.clients, txs, got.err)
            ELSE IF Withdraw_insufficient(got.client, amt)
            THEN Outcome(got.clients, txs,
                    InvalidTransaction(transaction,
                        <<MsgInsufficient, got.client.available, amt>>))
            ELSE Outcome(
                [got.clients EXCEPT ![transaction.client] = Withdraw_apply(@, amt)],
                txs, Ok)

\* bug variant: the client is fetched before the Log is consulted
Dispute_LookupFirst(ex, transaction) ==
    LET got  == get_mut(ex.registry, transaction.client)
        prev == get_tx(ex, transaction)
    IN  IF ~got.ok THEN Outcome(got.clients, ex.transactions, got.err)
        ELSE IF ~prev.ok THEN Outcome(got.clients, ex.transactions, prev.err)
        ELSE Outcome(
            [got.clients EXCEPT ![transaction.client] =
                Dispute_apply(@, prev.prev_tx.ttype.amount)],
            ex.transactions, Ok)

\* bug variant: the funds are held on the client of the logged transaction
Dispute_OwnerClient(ex, transaction) ==
    LET prev == get_tx(ex, transaction)
    IN  IF ~prev.ok THEN Outcome(ex.registry, ex.transactions, prev.err)
        ELSE
        LET got == get_mut(ex.registry, prev.prev_tx.client)
        IN  IF ~got.ok THEN Outcome(got.clients, ex.transactions, got.err)
            ELSE Outcome(
                [got.clients EXCEPT ![prev.prev_tx.client] =
                    Dispute_apply(@, prev.prev_tx.ttype.amount)],
                ex.transactions, Ok)

\* handle, arm TransactionType::Dispute
Dispute(ex, transaction) ==
    LET prev == get_tx(ex, transaction)
    IN  IF ~prev.ok THEN Outcome(ex.registry, ex.transactions, prev.err)
        ELSE
        LET got == get_mut(ex.registry, transaction.client)
        IN  IF ~got.ok THEN Outcome(got.clients, ex.transactions, got.err)
            ELSE IF prev.prev_tx.ttype.kind \in {"Deposit", "Withdraw"}
            THEN Outcome(
                [got.clients EXCEPT ![transaction.client] =
                    Dispute_apply(@, prev.prev_tx.ttype.amount)],
                ex.transactions, Ok)
            ELSE Outcome(got.clients, ex.transactions,
                    InvalidTransaction(transaction, <<MsgNotDepositOrWithdrawal>>))

\* handle, arm TransactionType::Resolve
Resolve(ex, transaction) ==
    LET prev == get_tx(ex, transaction)
    IN  IF ~prev.ok THEN Outcome(ex.registry, ex.transactions, prev.err)
        ELSE
        LET amt == amount(prev.prev_tx)
        IN  IF ~amt.some
            THEN Outcome(ex.registry, ex.transactions,
                    InvalidTransaction(transaction, <<MsgNoAmount>>))
            ELSE
            LET got == get_mut(ex.registry, transaction.client)
            IN  IF ~got.ok THEN Outcome(got.clients, ex.transactions, got.err)
                ELSE Outcome(
                    [got.clients EXCEPT ![transaction.client] =
                        Resolve_apply(@, amt.value)],
                    ex.transactions, Ok)

\* bug variant: the chargeback is applied to the client of the logged transaction
Chargeback_OwnerClient(ex, transaction) ==
    LET prev == get_tx(ex, transaction)
    IN  IF ~prev.ok THEN Outcome(ex.registry, ex.transactions, prev.err)
        ELSE
        LET got == get_mut(ex.registry, prev.prev_tx.client)
        IN  IF ~got.ok THEN Outcome(got.clients, ex.transactions, got.err)
            ELSE Outcome(
                [got.clients EXCEPT ![prev.prev_tx.client] =
                    Chargeback_apply(@, prev.prev_tx.ttype.amount)],
                ex.transactions, Ok)

\* handle, arm TransactionType::Chargeback
Chargeback(ex, transaction) ==
    LET prev == get_tx(ex, transaction)
    IN  IF ~prev.ok THEN Outcome(ex.registry, ex.transactions, prev.err)
        ELSE
        LET amt == amount(prev.prev_tx)
        IN  IF ~amt.some
            THEN Outcome(ex.registry, ex.transactions,
                    InvalidTransaction(transaction, <<MsgNoAmount>>))
            ELSE
            LET got == get_mut(ex.registry, transaction.client)
            IN  IF ~got.ok THEN Outcome(got.clients, ex.transactions, got.err)
                ELSE Outcome(
                    [got.clients EXCEPT ![transaction.client] =
                        Chargeback_apply(@, amt.value)],
                    ex.transactions, Ok)

\* Exchange::handle
handle(ex, transaction) ==
    CASE transaction.ttype.kind = "Deposit"    -> Deposit(ex, transaction)
      [] transaction.ttype.kind = "Withdraw"   -> Withdraw(ex, transaction)
      [] transaction.ttype.kind = "Dispute"    -> Dispute(ex, transaction)
      [] transaction.ttype.kind = "Resolve"    -> Resolve(ex, transaction)
      [] transaction.ttype.kind = "Chargeback" -> Chargeback(ex, transaction)

\* ------------------------------------------------------------------ state
VARIABLES
    registry,      \* Exchange.registry.clients : ClientID -> Client
    transactions,  \* Exchange.transactions     : TransactionID -> Transaction
    transaction,   \* the argument of the latest handle call
    result,        \* what the latest handle call returned
    accepted,      \* ids of the Deposit/Withdraw transactions whose handle call returned Ok
    cause,         \* why the latest call had to be rejected, "none" if it had not
    ledger,        \* per client: accepted deposits - withdrawals - chargebacks so far
    run,           \* the latest consecutive Ok calls naming one client and one id
    calls          \* number of handle calls made by the caller

vars == <<registry, transactions, transaction, result, accepted, cause, ledger, run, calls>>

NoTransaction == [tx |-> 0, client |-> 0, ttype |-> [kind |-> "None"]]
NoResult      == [variant |-> "None"]

\* the record get_mut would hand out for id in this registry
ClientOf(clients, id) == IF id \in DOMAIN clients THEN clients[id] ELSE Client_new(id)

LastN(s, n) == IF Len(s) <= n THEN s ELSE SubSeq(s, Len(s) - n + 1, Len(s))

\* the caller's view of consecutive accepted calls (as the unit tests drive them)
NextRun(r, t, before, out) ==
    IF out.result.variant # "Ok" THEN <<>>
    ELSE
    LET e == [transaction |-> t,
              before |-> ClientOf(before, t.client),
              after  |-> ClientOf(out.registry, t.client)]
    IN  IF r # <<>> /\ r[Len(r)].transaction.client = t.client
                   /\ r[Len(r)].transaction.tx = t.tx
        THEN LastN(Append(r, e), MaxRun)
        ELSE <<e>>

Init ==
    /\ registry = Exchange_new.registry
    /\ transactions = Exchange_new.transactions
    /\ transaction = NoTransaction
    /\ result = NoResult
    /\ accepted = {}
    /\ cause = "none"
    /\ ledger = [c \in ClientIDs |-> 0]
    /\ run = <<>>
    /\ calls = 0

\* the condition of the exchange that makes handle(t) return an error, in the
\* order handle tests them: the id against the store, the client's lock, the funds
Cause(ex, t) ==
    CASE t.ttype.kind \in {"Deposit", "Withdraw"} /\ t.tx \in DOMAIN ex.transactions
            -> "duplicate"
      [] t.ttype.kind \in {"Dispute", "Resolve", "Chargeback"} /\ t.tx \notin DOMAIN ex.transactions
            -> "unknown"
      [] OTHER ->
            IF ClientOf(ex.registry, t.client).locked THEN "locked"
            ELSE IF t.ttype.kind = "Withdraw"
                    /\ ClientOf(ex.registry, t.client).available < t.ttype.amount
            THEN "insufficient"
            ELSE "none"

\* the books kept beside the exchange: an accepted Deposit adds its amount to
\* the client it names, an accepted Withdraw takes its amount off, an accepted
\* Chargeback takes off the amount of the transaction logged under its id
\* (txs is the Log before the call); nothing else is entered
NextLedger(l, t, txs, res) ==
    IF res # Ok THEN l
    ELSE CASE t.ttype.kind = "Deposit"  -> [l EXCEPT ![t.client] = @ + t.ttype.amount]
           [] t.ttype.kind = "Withdraw" -> [l EXCEPT ![t.client] = @ - t.ttype.amount]
           [] t.ttype.kind = "Chargeback" /\ t.tx \in DOMAIN txs
                -> [l EXCEPT ![t.client] = @ - txs[t.tx].ttype.amount]
           [] OTHER -> l

\* the exchange as the caller holds it
Exchange == [registry |-> registry, transactions |-> transactions]

\* exchange.handle(t) has returned out: the exchange is updated in place and
\* the caller sees the result
Returned(t, out) ==
    /\ registry' = out.registry
    /\ transactions' = out.transactions
    /\ transaction' = t
    /\ result' = out.result
    /\ accepted' = IF out.result.variant = "Ok" /\ amount(t).some
                   THEN accepted \cup {t.tx} ELSE accepted
    /\ cause' = Cause(Exchange, t)
    /\ ledger' = NextLedger(ledger, t, transactions, out.result)
    /\ run' = NextRun(run, t, registry, out)
    /\ calls' = calls + 1

OfKind(k) == {t \in Transactions : t.ttype.kind = k}

\* one call exchange.handle(t) by the caller, per kind of t
HandleDeposit ==
    \E t \in OfKind("Deposit") :
        /\ calls < MaxCalls
        /\ Returned(t, handle(Exchange, t))

HandleWithdraw ==
    \E t \in OfKind("Withdraw") :
        /\ calls < MaxCalls
        /\ Returned(t, handle(Exchange, t))

HandleDispute ==
    \E t \in OfKind("Dispute") :
        /\ calls < MaxCalls
        /\ Returned(t, handle(Exchange, t))

HandleResolve ==
    \E t \in OfKind("Resolve") :
        /\ calls < MaxCalls
        /\ Returned(t, handle(Exchange, t))

HandleChargeback ==
    \E t \in OfKind("Chargeback") :
        /\ calls < MaxCalls
        /\ Returned(t, handle(Exchange, t))

Next ==
    \/ HandleDeposit
    \/ HandleWithdraw
    \/ HandleDispute
    \/ HandleResolve
    \/ HandleChargeback

Spec == Init /\ [][Next]_vars

TypeOK ==
    /\ DOMAIN registry \subseteq ClientIDs
    /\ DOMAIN transactions \subseteq TransactionIDs
    /\ \A c \in DOMAIN registry : registry[c].id = c
    /\ calls \in 0..MaxCalls

\* ------------------------------------------------------- result predicates
IsError(r) == r.variant \in {"InvalidTransaction", "Locked"}
HasMsg(r, m) == r.variant = "InvalidTransaction" /\ r.msg[1] = m
\* the rejections the specification calls DuplicateTransactionId, UnknownTransaction
\* and InsufficientFunds
IsDuplicateTransactionId(r) == HasMsg(r, MsgIdExists)
IsUnknownTransaction(r)     == HasMsg(r, MsgIdNotExist)
IsInsufficientFunds(r)      == HasMsg(r, MsgInsufficient)

AmountBearing == {"Deposit", "Withdraw"}
Referring     == {"Dispute", "Resolve", "Chargeback"}

\* ------------------------------------------------------------------ claims

\* C1: whenever handle returns an error, the Log after the call is the Log
\* before the call.
C1_LogUnchangedOnError ==
    [][IsError(result') => transactions' = transactions]_vars

\* C2: whenever handle returns an error, the Registry after the call is the
\* Registry before the call, except that a Withdraw rejected for insufficient
\* funds against an unknown client adds that client with zero balances, unlocked.
C2_RegistryUnchangedOnError ==
    [][IsError(result') =>
        IF /\ transaction'.ttype.kind = "Withdraw"
           /\ IsInsufficientFunds(result')
           /\ transaction'.client \notin DOMAIN registry
        THEN registry' = registry @@ (transaction'.client :> Client_new(transaction'.client))
        ELSE registry' = registry]_vars

\* C2 witness: both rejections have happened: the one that registers a client
\* (first call of the run) ...
C2_Witness ==
    /\ calls = 1
    /\ transaction.ttype.kind = "Withdraw"
    /\ IsInsufficientFunds(result)
    /\ registry = (transaction.client :> Client_new(transaction.client))

\* C3: every client in the Registry has total = available + held.
C3_TotalIsAvailablePlusHeld ==
    \A c \in DOMAIN registry :
        registry[c].total = registry[c].available + registry[c].held

\* C3 witness: a client with funds both available and held, after a chargeback
\* on another client
C3_Witness ==
    \E c, d \in DOMAIN registry :
        /\ registry[c].available # 0 /\ registry[c].held # 0
        /\ registry[d].locked /\ registry[d].total # 0

\* C4: a locked client stays locked and keeps its available, held and total
\* across every later handle call.
C4_LockedIsFrozen ==
    [][\A c \in DOMAIN registry :
        registry[c].locked =>
            c \in DOMAIN registry' /\ registry'[c] = registry[c]]_vars

\* C4 witness: a call naming an already locked client has been handled
C4_Witness ==
    /\ transaction.client \in DOMAIN registry
    /\ registry[transaction.client].locked
    /\ result.variant = "Locked"

\* C5: every Log entry is a Deposit or Withdraw whose own handle call
\* returned Ok.
C5_LogHoldsOnlyAccepted ==
    \A id \in DOMAIN transactions :
        /\ transactions[id].ttype.kind \in AmountBearing
        /\ id \in accepted

\* C6: a Dispute, Resolve or Chargeback whose id was never accepted as a
\* Deposit/Withdraw (never submitted, or submitted only in rejected calls)
\* returns the UnknownTransaction rejection and changes no balance.
C6_UnacceptedIdIsUnknown ==
    [][(transaction'.ttype.kind \in Referring /\ transaction'.tx \notin accepted) =>
        (IsUnknownTransaction(result') /\ registry' = registry)]_vars

\* C7: right after a Withdraw that returned Ok, the withdrawing client's
\* available is not negative.
C7_AcceptedWithdrawLeavesNonNegative ==
    (transaction.ttype.kind = "Withdraw" /\ result.variant = "Ok") =>
        registry[transaction.client].available >= 0

\* C7 witness: a Withdraw was accepted for a client whose funds a Dispute had
\* moved to held, and it took available to the boundary
C7_Witness ==
    /\ transaction.ttype.kind = "Withdraw" /\ result.variant = "Ok"
    /\ registry[transaction.client].held > 0
    /\ registry[transaction.client].available = 0

\* C8: a Deposit or Withdraw whose id is already in the Log is rejected as a
\* duplicate and leaves every client record and the Log unchanged, at every
\* repetition.
C8_DuplicateRejectionIsIdempotent ==
    [][(transaction'.ttype.kind \in AmountBearing /\ transaction'.tx \in DOMAIN transactions) =>
        /\ IsDuplicateTransactionId(result')
        /\ registry' = registry
        /\ transactions' = transactions]_vars

\* C8 witness: the same Deposit/Withdraw was handled again and rejected as a
\* duplicate
C8_Witness ==
    /\ IsDuplicateTransactionId(result)
    /\ transaction.tx \in DOMAIN transactions
    /\ transactions[transaction.tx] = transaction

\* position i of run: an accepted Dispute directly followed by an accepted
\* Resolve, both of an accepted Deposit of the same client
DisputeThenResolve(i) ==
    /\ i + 1 <= Len(run)
    /\ run[i].transaction.ttype.kind = "Dispute"
    /\ run[i + 1].transaction.ttype.kind = "Resolve"
    /\ run[i].transaction.tx \in accepted
    /\ transactions[run[i].transaction.tx].ttype.kind = "Deposit"
    /\ transactions[run[i].transaction.tx].client = run[i].transaction.client

\* C9: after an accepted Deposit t, an accepted Dispute of t followed by an
\* accepted Resolve of t (same client) restores available and held to their
\* values before the Dispute, and total is the same before the Dispute, after
\* it and after the Resolve.
C9_DisputeResolveRoundTrip ==
    \A i \in 1..MaxRun :
        DisputeThenResolve(i) =>
            /\ run[i + 1].before = run[i].after
            /\ run[i + 1].after.available = run[i].before.available
            /\ run[i + 1].after.held = run[i].before.held
            /\ run[i].after.total = run[i].before.total
            /\ run[i + 1].after.total = run[i].before.total
            /\ i + 1 = Len(run) => registry[run[i].transaction.client] = run[i + 1].after

\* C9 witness: the round trip has happened and the Dispute did move funds
C9_Witness ==
    \E i \in 1..MaxRun :
        /\ DisputeThenResolve(i)
        /\ run[i].after.held # run[i].before.held

\* position i of run: accepted Deposit, Dispute and Chargeback of one id by
\* one client, in a row
DepositDisputeChargeback(i) ==
    /\ i + 2 <= Len(run)
    /\ run[i].transaction.ttype.kind = "Deposit"
    /\ run[i + 1].transaction.ttype.kind = "Dispute"
    /\ run[i + 2].transaction.ttype.kind = "Chargeback"

\* C10: accepted Deposit t, Dispute t, Chargeback t of one client leave
\* available, held and total at their values before the Deposit and the client
\* locked; from an empty exchange the client ends as 0, 0, 0, locked.
C10_DepositDisputeChargeback ==
    \A i \in 1..MaxRun :
        DepositDisputeChargeback(i) =>
            LET c     == run[i].transaction.client
                first == run[i].before
                last  == run[i + 2].after
            IN  /\ ~first.locked
                /\ last.available = first.available
                /\ last.held = first.held
                /\ last.total = first.total
                /\ last.locked
                /\ i + 2 = Len(run) => registry[c] = last
                /\ calls = 3 =>
                    registry = (c :> [id |-> c, available |-> 0, held |-> 0,
                                      total |-> 0, locked |-> TRUE])

\* C10 witness: the three calls were the first three on an empty exchange and
\* the deposit was of a positive amount
C10_Witness ==
    /\ calls = 3
    /\ DepositDisputeChargeback(1)
    /\ run[1].transaction.ttype.amount > 0

\* the call handle(t) gets as far as Registry::get_mut in this exchange
ReachesLookup(ex, t) ==
    \/ t.ttype.kind \in AmountBearing /\ t.tx \notin DOMAIN ex.transactions
    \/ t.ttype.kind \in Referring /\ t.tx \in DOMAIN ex.transactions

IsLockedIn(clients, id) == id \in DOMAIN clients /\ clients[id].locked

\* C11: a call naming a locked client that reaches the client lookup returns
\* Locked, carrying a snapshot equal to the client's record (before and after
\* the call); a Withdraw above available is reported Locked too.
C11_LockedClientYieldsLocked ==
    [][(IsLockedIn(registry, transaction'.client) /\ ReachesLookup(Exchange, transaction')) =>
        /\ result' = Locked(registry[transaction'.client])
        /\ result'.client = registry'[transaction'.client]]_vars

\* C11 witness: a Withdraw above the available funds of a locked client came
\* back Locked
C11_Witness ==
    /\ result.variant = "Locked"
    /\ transaction.ttype.kind = "Withdraw"
    /\ transaction.ttype.amount > result.client.available
    /\ result.client.total # 0

\* C12: a Dispute, Resolve or Chargeback whose id is not in the Log is rejected
\* before any client lookup: Registry (and Log) unchanged, an unknown client
\* stays unknown.
C12_UnknownIdTouchesNoClient ==
    [][(transaction'.ttype.kind \in Referring /\ transaction'.tx \notin DOMAIN transactions) =>
        /\ IsUnknownTransaction(result')
        /\ registry' = registry
        /\ transactions' = transactions
        /\ (transaction'.client \notin DOMAIN registry =>
                transaction'.client \notin DOMAIN registry')]_vars

\* C12 witness: such a rejection named a client that is still not registered,
\* while another client is
C12_Witness ==
    /\ IsUnknownTransaction(result)
    /\ transaction.ttype.kind = "Dispute"
    /\ transaction.client \notin DOMAIN registry
    /\ registry # <<>>

\* C13: a Withdraw with a fresh id for a client that is not locked is accepted
\* iff available >= amount (an unknown client has available 0); accepted, it
\* takes amount off total and available and leaves held and locked; rejected,
\* it leaves the balances and registers an unknown client with zeros, unlocked.
C13_Withdraw ==
    [][(/\ transaction'.ttype.kind = "Withdraw"
        /\ transaction'.tx \notin DOMAIN transactions
        /\ ~IsLockedIn(registry, transaction'.client)) =>
        LET c   == transaction'.client
            amt == transaction'.ttype.amount
            old == ClientOf(registry, c)
        IN  /\ (result' = Ok) <=> (old.available >= amt)
            /\ c \in DOMAIN registry'
            /\ result' = Ok =>
                registry'[c] = [old EXCEPT !.total = @ - amt, !.available = @ - amt]
            /\ result' # Ok =>
                IsInsufficientFunds(result') /\ registry'[c] = old]_vars

\* C13 witness: a Withdraw of exactly the available funds was accepted
C13_Witness ==
    /\ transaction.ttype.kind = "Withdraw" /\ result = Ok
    /\ transaction.ttype.amount > 0
    /\ registry[transaction.client].available = 0
    /\ registry[transaction.client].total = 0

\* C14: a Deposit with a fresh id for a client that is not locked is accepted,
\* is added to the Log, creates an unknown client, and adds amount to total and
\* available, leaving held and locked.
C14_Deposit ==
    [][(/\ transaction'.ttype.kind = "Deposit"
        /\ transaction'.tx \notin DOMAIN transactions
        /\ ~IsLockedIn(registry, transaction'.client)) =>
        LET c   == transaction'.client
            amt == transaction'.ttype.amount
            old == ClientOf(registry, c)
        IN  /\ result' = Ok
            /\ transactions' = transactions @@ (transaction'.tx :> transaction')
            /\ DOMAIN registry' = DOMAIN registry \cup {c}
            /\ registry'[c] = [old EXCEPT !.total = @ + amt, !.available = @ + amt]]_vars

\* C14 witness: a positive Deposit was accepted for a client with funds held
C14_Witness ==
    /\ transaction.ttype.kind = "Deposit" /\ result = Ok
    /\ transaction.ttype.amount > 0
    /\ registry[transaction.client].held > 0

\* C15: a locked flag changes only from false to true, only for the client
\* named on a Chargeback that returned Ok; every Chargeback that returned Ok
\* leaves that client locked.
C15_OnlyChargebackLocks ==
    [][/\ \A c \in DOMAIN registry' :
            ClientOf(registry, c).locked # registry'[c].locked =>
                /\ registry'[c].locked
                /\ transaction'.ttype.kind = "Chargeback"
                /\ result' = Ok
                /\ transaction'.client = c
       /\ (transaction'.ttype.kind = "Chargeback" /\ result' = Ok) =>
            registry'[transaction'.client].locked]_vars

\* C15 witness: a Chargeback locked one client while another, disputed one
\* stayed unlocked
C15_Witness ==
    /\ transaction.ttype.kind = "Chargeback" /\ result = Ok
    /\ registry[transaction.client].locked
    /\ \E d \in DOMAIN registry : ~registry[d].locked /\ registry[d].held # 0

\* C16 as claimed: each rejection cause has an error kind (ExchangeError
\* variant) of its own, so two rejections of different causes never carry the
\* same kind.
C16_EachCauseItsOwnKind ==
    [][(cause # "none" /\ cause' # "none" /\ cause # cause') =>
        result.variant # result'.variant]_vars

\* C16 as amended: a reused id, an unknown id and insufficient funds all come
\* back as the one kind InvalidTransaction and differ only in its message text;
\* a locked client comes back as the kind Locked; a call is rejected iff one of
\* the four causes holds.
C16_CausesToldApartByMessage ==
    /\ cause = "none" <=> ~IsError(result)
    /\ cause = "duplicate" => IsDuplicateTransactionId(result)
    /\ cause = "unknown" => IsUnknownTransaction(result)
    /\ cause = "insufficient" => IsInsufficientFunds(result)
    /\ cause = "locked" => result.variant = "Locked"
    /\ Cardinality({MsgIdExists, MsgIdNotExist, MsgInsufficient}) = 3

\* C16 witness: an unknown-id rejection directly after an insufficient-funds
\* rejection (same kind, different message)
C16_Witness ==
    /\ cause = "unknown"
    /\ IsUnknownTransaction(result)
    /\ \E id \in DOMAIN transactions :
          transactions[id].ttype.kind = "Withdraw" /\ id \notin accepted

\* C17: an id in the Log stays in the Log with the same transaction; only
\* Deposit and Withdraw transactions are ever stored; an accepted Resolve or
\* Chargeback does not remove the entry it refers to.
C17_LogIsWriteOnce ==
    [][/\ \A id \in DOMAIN transactions :
            id \in DOMAIN transactions' /\ transactions'[id] = transactions[id]
       /\ \A id \in DOMAIN transactions' :
            /\ transactions'[id].ttype.kind \in AmountBearing
            /\ transactions'[id].tx = id
       /\ (transaction'.ttype.kind \in {"Resolve", "Chargeback"} /\ result' = Ok) =>
            transaction'.tx \in DOMAIN transactions']_vars

\* C17 witness: after an accepted Chargeback and a rejected reuse of its id
\* with other contents, the entry is still the one first stored
C17_Witness ==
    /\ IsDuplicateTransactionId(result)
    /\ transactions[transaction.tx] # transaction
    /\ transaction.tx \in accepted
    /\ \E c \in DOMAIN registry : registry[c].locked

\* C18: a Dispute of a logged Deposit or Withdraw naming an unlocked client is
\* accepted and moves the logged amount from available to held of the client
\* named on the Dispute (created if unknown), total unchanged; the logged
\* transaction's client is not consulted and, when another, is left unchanged.
C18_DisputeActsOnNamedClient ==
    [][(/\ transaction'.ttype.kind = "Dispute"
        /\ transaction'.tx \in DOMAIN transactions
        /\ ~IsLockedIn(registry, transaction'.client)) =>
        LET c   == transaction'.client
            amt == transactions[transaction'.tx].ttype.amount
            old == ClientOf(registry, c)
        IN  /\ result' = Ok
            /\ DOMAIN registry' = DOMAIN registry \cup {c}
            /\ registry'[c] = [old EXCEPT !.available = @ - amt, !.held = @ + amt]
            /\ \A d \in DOMAIN registry \ {c} : registry'[d] = registry[d]]_vars

\* C18 witness: a Dispute of another client's Withdraw was accepted and
\* created the client it names
C18_Witness ==
    /\ transaction.ttype.kind = "Dispute" /\ result = Ok
    /\ transactions[transaction.tx].client # transaction.client
    /\ transactions[transaction.tx].ttype.kind = "Withdraw"
    /\ transactions[transaction.tx].ttype.amount > 0
    /\ registry[transaction.client] =
         [Client_new(transaction.client) EXCEPT
            !.available = 0 - transactions[transaction.tx].ttype.amount,
            !.held = transactions[transaction.tx].ttype.amount]

\* C19: a Resolve or Chargeback of a logged transaction naming an unlocked
\* client is accepted whatever Disputes or Resolves came before, and takes the
\* logged amount off held (so held can go below zero with positive amounts).
C19_NoDisputeStatus ==
    [][(/\ transaction'.ttype.kind \in {"Resolve", "Chargeback"}
        /\ transaction'.tx \in DOMAIN transactions
        /\ ~IsLockedIn(registry, transaction'.client)) =>
        LET c   == transaction'.client
            amt == transactions[transaction'.tx].ttype.amount
        IN  /\ result' = Ok
            /\ registry'[c].held = ClientOf(registry, c).held - amt]_vars

\* C19 witness: on a new exchange a positive Deposit and then a Resolve of it,
\* with no Dispute, were accepted and held is negative
C19_Witness ==
    /\ calls = 2
    /\ Len(run) = 2
    /\ run[1].transaction.ttype.kind = "Deposit"
    /\ run[1].transaction.ttype.amount > 0
    /\ run[2].transaction.ttype.kind = "Resolve"
    /\ registry[transaction.client].held < 0

\* the exchange a call of handle leaves behind
After(out) == [registry |-> out.registry, transactions |-> out.transactions]

\* handling t1 then t2 and handling t2 then t1, from the current exchange, give
\* the same Registry, the same Log and the same result for each of the two
Commute(t1, t2) ==
    LET a  == handle(Exchange, t1)
        ab == handle(After(a), t2)
        b  == handle(Exchange, t2)
        ba == handle(After(b), t1)
    IN  /\ ab.registry = ba.registry
        /\ ab.transactions = ba.transactions
        /\ a.result = ba.result
        /\ b.result = ab.result

Independent(t1, t2) == t1.client # t2.client /\ t1.tx # t2.tx

\* C20: from every reachable state that leaves room for two more calls, any two
\* transactions with different client ids and different transaction ids commute.
C20_ClientsAreIndependent ==
    calls + 2 <= MaxCalls =>
        \A t1, t2 \in Transactions : Independent(t1, t2) => Commute(t1, t2)

\* C20 witness: a state where an accepted Chargeback (which locks its client)
\* and a Withdraw of another client rejected for insufficient funds commute
C20_Witness ==
    /\ calls + 2 <= MaxCalls
    /\ \E t1 \in OfKind("Chargeback"), t2 \in OfKind("Withdraw") :
        /\ Independent(t1, t2)
        /\ handle(Exchange, t1).result = Ok
        /\ IsInsufficientFunds(handle(Exchange, t2).result)
        /\ t2.client \in DOMAIN registry
        /\ Commute(t1, t2)

\* C21: a handle call, accepted or rejected, changes at most the record of the
\* client named on the transaction; every other client's record is unchanged,
\* no client leaves the Registry (at most the named one joins it), and every
\* record's id is the key it is stored under.
C21_FrameOfHandle ==
    [][/\ DOMAIN registry \subseteq DOMAIN registry'
       /\ DOMAIN registry' \subseteq DOMAIN registry \cup {transaction'.client}
       /\ \A d \in DOMAIN registry \ {transaction'.client} : registry'[d] = registry[d]
       /\ \A d \in DOMAIN registry' : registry'[d].id = d]_vars

\* C21 witness: an accepted call changed the balances of the client it names
\* while another registered client, with funds and a logged transaction of its
\* own under the same id, stayed as it was
C21_Witness ==
    /\ result = Ok
    /\ transaction.ttype.kind \in Referring
    /\ transactions[transaction.tx].client # transaction.client
    /\ transactions[transaction.tx].client \in DOMAIN registry
    /\ registry[transactions[transaction.tx].client].total # 0
    /\ registry[transaction.client].held # 0

\* C22: after every call each client's total is the sum of the Deposits
\* accepted for it, minus the Withdraws accepted for it, minus the logged
\* amounts of the Chargebacks accepted naming it (an unregistered client has
\* none of them); Dispute and Resolve calls and rejected calls change no total.
C22_ConservationOfFunds ==
    [][/\ \A c \in ClientIDs : ClientOf(registry', c).total = ledger'[c]
       /\ (transaction'.ttype.kind \in {"Dispute", "Resolve"} \/ IsError(result')) =>
            \A c \in ClientIDs : ClientOf(registry', c).total = ClientOf(registry, c).total]_vars

\* C22 witness: a client with an accepted positive Deposit, an accepted
\* positive Withdraw and then an accepted Chargeback, left with a total that
\* is not zero
C22_Witness ==
    /\ transaction.ttype.kind = "Chargeback" /\ result = Ok
    /\ transactions[transaction.tx].client = transaction.client
    /\ \E d, w \in accepted :
        /\ transactions[d].ttype.kind = "Deposit" /\ transactions[d].ttype.amount > 0
        /\ transactions[w].ttype.kind = "Withdraw" /\ transactions[w].ttype.amount > 0
        /\ transactions[d].client = transaction.client
        /\ transactions[w].client = transaction.client
    /\ registry[transaction.client].total # 0
    /\ registry[transaction.client].total = ledger[transaction.client]
====
